---- MODULE Spec2Model ----
(***************************************************************************)
(* Model of the bill-splitting engine of src/src/lib/types.ts (the calc    *)
(* part: round2, round4, allocateItemTaxes, computeTotals, pennyFix,       *)
(* buildSplitwiseShares) and of the places that call it.                   *)
(*                                                                         *)
(* Numbers.  A JavaScript number that holds money is modelled as an exact  *)
(* decimal, counted in ten-thousandths ("ticks"): 1.00 is 10000 ticks and  *)
(* one cent is 100 ticks.  Every value the engine stores is the result of  *)
(* round4 or round2, hence a whole number of ticks when the prices and the *)
(* tax are.  A value that is not stored (a quotient such as                *)
(* itemTotal / consumerIds.length) is kept as a fraction num/den of ticks  *)
(* until the code rounds it.  Math.round is floor(x + 1/2).  The binary    *)
(* representation error of IEEE-754 doubles is not modelled.               *)
(*                                                                         *)
(* A Record<UUID, number> is modelled as a sequence of [key, val] entries  *)
(* in insertion order, which is the order Object.keys / Object.entries /   *)
(* Object.values enumerate (the ids are not integer-like strings).         *)
(***************************************************************************)
EXTENDS Integers, Sequences, FiniteSets, TLC

VARIABLES
    state,        \* the BillState the engine is called with
    pennyArgs,    \* the arguments of a direct pennyFix call
    itemTaxes,    \* result of allocateItemTaxes(state.items, state.overallTax)
    totals,       \* result of computeTotals(state)
    fixedTotals,  \* result of pennyFix
    splitwise,    \* result of buildSplitwiseShares(state)
    pc,           \* "input" before the call, "done" after it
    app,          \* what App keeps besides the bill: the stored splits
    rounding,     \* a number and the round2 / round4 calls applied to it
    verdict       \* what validateBillState and isStateComplete returned

vars ==
    <<state, pennyArgs, itemTaxes, totals, fixedTotals, splitwise, pc, app,
      rounding, verdict>>

----------------------------------------------------------------------------
(* Bounds of the checked input families.                                   *)

MaxItems == 2
MaxBulkItems == 253
MaxIdleItems == 70
MaxTaxItems == 201
MaxPennyPeople == 3

(* Program constants, in the units described above.                        *)
CentScale == 100       \* round2: Math.round(n * 100) / 100
TickScale == 10000     \* round4: Math.round(n * 10000) / 10000

Cent == TickScale \div CentScale   \* 0.01 in ticks

----------------------------------------------------------------------------
(* Generic helpers for arrays.                                             *)

Abs(x) == IF x < 0 THEN -x ELSE x

Min(a, b) == IF a < b THEN a ELSE b

(* Array.prototype.reduce((sum, x) => sum + f(x), 0) over an array of      *)
(* numbers.                                                                *)
RECURSIVE SumRange(_, _, _)
SumRange(s, lo, hi) ==
    IF lo > hi THEN 0
    ELSE IF lo = hi THEN s[lo]
    ELSE LET mid == (lo + hi) \div 2
         IN  SumRange(s, lo, mid) + SumRange(s, mid + 1, hi)

SumSeq(s) == SumRange(s, 1, Len(s))

(* Array.prototype.sort((a, b) => key(b) - key(a)): a stable sort          *)
(* (ECMAScript 2019) into descending key order.  key[i] is the key of      *)
(* s[i]; the element at index i lands after every element with a larger   *)
(* key and after the earlier elements with an equal key.                   *)
SortDescending(s, key) ==
    LET n == Len(s)
        pos(i) == 1 + Cardinality({j \in 1..n :
                          key[j] > key[i] \/ (key[j] = key[i] /\ j < i)})
    IN  [p \in 1..n |-> s[CHOOSE i \in 1..n : pos(i) = p]]

----------------------------------------------------------------------------
(* Rounding primitives.                                                    *)

(* The result of a division by zero, NaN or an Infinity, and of any        *)
(* rounding of it: a value that no finite amount of the model takes.       *)
NotANumber == -(TickScale * TickScale)

(* Math.round(num / den): the nearest integer, a half going up.            *)
MathRound(num, den) ==
    IF den = 0 THEN NotANumber
    ELSE IF den > 0 THEN (2 * num + den) \div (2 * den)
    ELSE (2 * (-num) + (-den)) \div (2 * (-den))

(* Math.floor(num / den).                                                  *)
MathFloor(num, den) ==
    IF den > 0 THEN num \div den ELSE (-num) \div (-den)

(* Mutant: the cents are a floor plus one, a ceiling that overshoots.      *)
round2FloorPlusOne(num, den) == Cent * (MathFloor(num, den * Cent) + 1)

(* round2 of the fraction num/den of ticks, in ticks.                      *)
round2(num, den) ==
    IF den = 0 THEN NotANumber ELSE Cent * MathRound(num, den * Cent)

(* Mutant: the intermediate precision is two decimals instead of four.    *)
round4ToCents(num, den) == round2(num, den)

(* round4 of the fraction num/den of ticks, in ticks.                      *)
round4(num, den) == MathRound(num, den)

----------------------------------------------------------------------------
(* Record<UUID, number> as an ordered association list.                    *)

HasKey(map, k) == \E i \in 1..Len(map) : map[i].key = k

(* map[k], with `dflt` standing for undefined handled by the caller.       *)
GetOr(map, k, dflt) ==
    IF HasKey(map, k)
    THEN map[CHOOSE i \in 1..Len(map) : map[i].key = k].val
    ELSE dflt

(* map[k] = v: an existing key keeps its place, a new key goes last.       *)
Put(map, k, v) ==
    IF HasKey(map, k)
    THEN [map EXCEPT ![CHOOSE i \in 1..Len(map) : map[i].key = k] = [key |-> k, val |-> v]]
    ELSE Append(map, [key |-> k, val |-> v])

Values(map) == [i \in 1..Len(map) |-> map[i].val]

----------------------------------------------------------------------------
(* Tax allocator.                                                          *)

Prices(items) == [i \in 1..Len(items) |-> items[i].price]

(* Mutant: the taxes are aligned with the items in reverse.                *)
allocateItemTaxesReversed(items, overallTax) ==
    IF Len(items) = 0 THEN <<>>
    ELSE LET subtotal == SumSeq(Prices(items))
         IN  IF subtotal = 0
             THEN [i \in 1..Len(items) |-> 0]
             ELSE [i \in 1..Len(items) |->
                      round4(overallTax * items[Len(items) + 1 - i].price, subtotal)]

(* Mutant: the zero-subtotal branch is missing and the division yields NaN.*)
allocateItemTaxesUnguarded(items, overallTax) ==
    IF Len(items) = 0 THEN <<>>
    ELSE LET subtotal == SumSeq(Prices(items))
         IN  [i \in 1..Len(items) |-> round4(overallTax * items[i].price, subtotal)]

(* Mutant: every item carries the same part of the tax, whatever it costs. *)
allocateItemTaxesEvenly(items, overallTax) ==
    IF Len(items) = 0 THEN <<>>
    ELSE [i \in 1..Len(items) |-> round4(overallTax, Len(items))]

(* Mutant: without a basis for proportions the tax is split evenly.        *)
allocateItemTaxesEvenWhenFree(items, overallTax) ==
    IF Len(items) = 0 THEN <<>>
    ELSE LET subtotal == SumSeq(Prices(items))
         IN  IF subtotal = 0
             THEN [i \in 1..Len(items) |-> round4(overallTax, Len(items))]
             ELSE [i \in 1..Len(items) |->
                      round4(overallTax * items[i].price, subtotal)]

allocateItemTaxes(items, overallTax) ==
    IF Len(items) = 0 THEN <<>>
    ELSE LET subtotal == SumSeq(Prices(items))
         IN  IF subtotal = 0
             THEN [i \in 1..Len(items) |-> 0]
             ELSE [i \in 1..Len(items) |->
                      round4(overallTax * items[i].price, subtotal)]

----------------------------------------------------------------------------
(* Totals computer.                                                        *)

(* Mutant: every consumer is charged the whole item total.                 *)
AddShareUndivided(acc, item, itemTotal, k, consumerId) ==
    LET cur == GetOr(acc.perPersonUnrounded, consumerId, 0)
        withShare == Put(acc.perPersonUnrounded, consumerId, round4(cur + itemTotal, 1))
        entry == [id |-> item.id, name |-> item.name, share |-> round2(itemTotal, 1)]
        found == {i \in 1..Len(acc.personTotals) : acc.personTotals[i].id = consumerId}
        first == CHOOSE i \in found : \A j \in found : i <= j
    IN  [perPersonUnrounded |-> withShare,
         personTotals |->
            IF found = {} THEN acc.personTotals
            ELSE [acc.personTotals EXCEPT ![first].items = Append(@, entry)]]

(* The body of item.consumerIds.forEach: one consumer of one item.         *)
(* sharePerConsumer is the fraction itemTotal / k.                         *)
AddShare(acc, item, itemTotal, k, consumerId) ==
    LET cur == GetOr(acc.perPersonUnrounded, consumerId, 0)
        withShare == Put(acc.perPersonUnrounded, consumerId,
                         round4(cur * k + itemTotal, k))
        entry == [id |-> item.id, name |-> item.name, share |-> round2(itemTotal, k)]
        found == {i \in 1..Len(acc.personTotals) : acc.personTotals[i].id = consumerId}
        first == CHOOSE i \in found : \A j \in found : i <= j
    IN  [perPersonUnrounded |-> withShare,
         personTotals |->
            IF found = {} THEN acc.personTotals
            ELSE [acc.personTotals EXCEPT ![first].items = Append(@, entry)]]

RECURSIVE ForEachConsumer(_, _, _, _)
ForEachConsumer(acc, item, itemTotal, j) ==
    IF j > Len(item.consumerIds) THEN acc
    ELSE ForEachConsumer(
            AddShare(acc, item, itemTotal, Len(item.consumerIds), item.consumerIds[j]),
            item, itemTotal, j + 1)

(* state.items.forEach over the items lo..hi, in index order.  The range   *)
(* is split in halves only to keep the evaluation of long bills shallow;   *)
(* the items are still visited from lo to hi, each starting from its       *)
(* predecessor's result.                                                   *)
RECURSIVE ForEachItem(_, _, _, _, _)
ForEachItem(acc, items, taxes, lo, hi) ==
    IF lo > hi THEN acc
    ELSE IF lo = hi
    THEN ForEachConsumer(acc, items[lo], items[lo].price + taxes[lo], 1)
    ELSE LET mid == (lo + hi) \div 2
             firstHalf == ForEachItem(acc, items, taxes, lo, mid)
         IN  \* the test only makes firstHalf a value before the second half
             \* starts, as in a strict language; it is always true
             IF Len(firstHalf.personTotals) >= 0
             THEN ForEachItem(firstHalf, items, taxes, mid + 1, hi)
             ELSE firstHalf

(* Mutant: the person totals are not updated with the rounded amounts.     *)
computeTotalsKeepingZeroTotals(st) ==
    LET subtotal == SumSeq(Prices(st.items))
        taxes == allocateItemTaxes(st.items, st.overallTax)
        init == [perPersonUnrounded |->
                    [i \in 1..Len(st.people) |-> [key |-> st.people[i].id, val |-> 0]],
                 personTotals |->
                    [i \in 1..Len(st.people) |->
                        [id |-> st.people[i].id, name |-> st.people[i].name,
                         total |-> 0, items |-> <<>>]]]
        acc == ForEachItem(init, st.items, taxes, 1, Len(st.items))
    IN  [perPersonUnrounded |-> acc.perPersonUnrounded,
         perPersonRounded |->
            [i \in 1..Len(acc.perPersonUnrounded) |->
                [key |-> acc.perPersonUnrounded[i].key,
                 val |-> round2(acc.perPersonUnrounded[i].val, 1)]],
         subtotal |-> round2(subtotal, 1),
         grandTotal |-> round2(subtotal + st.overallTax, 1),
         personTotals |-> acc.personTotals]

computeTotals(st) ==
    LET subtotal == SumSeq(Prices(st.items))
        grandTotal == round2(subtotal + st.overallTax, 1)
        taxes == allocateItemTaxes(st.items, st.overallTax)
        init == [perPersonUnrounded |->
                    [i \in 1..Len(st.people) |-> [key |-> st.people[i].id, val |-> 0]],
                 personTotals |->
                    [i \in 1..Len(st.people) |->
                        [id |-> st.people[i].id, name |-> st.people[i].name,
                         total |-> 0, items |-> <<>>]]]
        acc == ForEachItem(init, st.items, taxes, 1, Len(st.items))
        perPersonRounded ==
            [i \in 1..Len(acc.perPersonUnrounded) |->
                [key |-> acc.perPersonUnrounded[i].key,
                 val |-> round2(acc.perPersonUnrounded[i].val, 1)]]
    IN  [perPersonUnrounded |-> acc.perPersonUnrounded,
         perPersonRounded |-> perPersonRounded,
         subtotal |-> round2(subtotal, 1),
         grandTotal |-> grandTotal,
         personTotals |->
            [i \in 1..Len(acc.personTotals) |->
                [acc.personTotals[i] EXCEPT
                    !.total = GetOr(perPersonRounded, acc.personTotals[i].id, 0)]]]

----------------------------------------------------------------------------
(* Penny reconciler.                                                       *)

(* Math.abs(amount - Math.floor(amount * 100) / 100)                       *)
Fractional(amount) == Abs(amount - Cent * MathFloor(amount, Cent))

(* Object.entries(result).map(...), before the sort.                       *)
FractionalEntries(perPersonUnrounded) ==
    [i \in 1..Len(perPersonUnrounded) |->
        [personId |-> perPersonUnrounded[i].key,
         amount |-> perPersonUnrounded[i].val,
         rounded |-> round2(perPersonUnrounded[i].val, 1),
         fractional |-> Fractional(perPersonUnrounded[i].val)]]

(* Mutant: the sort is left out and the pennies go to the first keys.      *)
SortByFractionalOmitted(entries) == entries

(* fractionalData.sort((a, b) => b.fractional - a.fractional)              *)
SortByFractional(entries) ==
    SortDescending(entries, [i \in 1..Len(entries) |-> entries[i].fractional])

pennyFix(perPersonUnrounded, grandTotal) ==
    LET n == Len(perPersonUnrounded)
        rounded == [i \in 1..n |-> round2(perPersonUnrounded[i].val, 1)]
        currentRoundedTotal == SumSeq(rounded)
        discrepancy == round2(grandTotal - currentRoundedTotal, 1)
    IN  IF Abs(discrepancy) < Cent
        THEN [i \in 1..n |-> [key |-> perPersonUnrounded[i].key, val |-> rounded[i]]]
        ELSE
          LET fractionalData == SortByFractional(FractionalEntries(perPersonUnrounded))
              penniesNeeded == MathRound(discrepancy, Cent)
              pennyAdjustment == IF penniesNeeded > 0 THEN Cent ELSE -Cent
              adjustmentCount == Abs(penniesNeeded)
              adjusted == Min(adjustmentCount, n)
              rank(i) == CHOOSE r \in 1..n :
                            fractionalData[r].personId = perPersonUnrounded[i].key
          IN  [i \in 1..n |->
                  [key |-> perPersonUnrounded[i].key,
                   val |-> IF rank(i) <= adjusted
                           THEN round2(rounded[i] + pennyAdjustment, 1)
                           ELSE rounded[i]]]

----------------------------------------------------------------------------
(* Export formatter.                                                       *)

(* Mutant: the filter keeps a share of exactly 0.                          *)
IsNonNegativeShare(fixed, person) == GetOr(fixed, person.id, 0) >= 0

(* .filter((person) => fixedTotals[person.id] > 0)                          *)
IsPositiveShare(fixed, person) == GetOr(fixed, person.id, 0) > 0

(* Mutant: the shares are left in people order.                            *)
SortByAmountOmitted(shares) == shares

(* .sort((a, b) => b.amount - a.amount)                                    *)
SortByAmount(shares) ==
    SortDescending(shares, [i \in 1..Len(shares) |-> shares[i].amount])

buildSplitwiseShares(st) ==
    LET t == computeTotals(st)
        fixed == pennyFix(t.perPersonUnrounded, t.grandTotal)
        payers == {i \in 1..Len(st.people) : st.people[i].id = st.payerId}
        payerName == IF payers = {} THEN "Unknown"
                     ELSE st.people[CHOOSE i \in payers : \A j \in payers : i <= j].name
        kept == SelectSeq(st.people, LAMBDA person : IsPositiveShare(fixed, person))
        mapped == [i \in 1..Len(kept) |->
                      [name |-> kept[i].name,
                       amount |-> round2(GetOr(fixed, kept[i].id, 0), 1)]]
    IN  [shares |-> SortByAmount(mapped),
         grandTotal |-> t.grandTotal,
         payerName |-> payerName]

----------------------------------------------------------------------------
(* State validation.                                                       *)

(* The concatenation of the sequences ss[lo], ..., ss[hi], in order.       *)
RECURSIVE ConcatRange(_, _, _)
ConcatRange(ss, lo, hi) ==
    IF lo > hi THEN <<>>
    ELSE IF lo = hi THEN ss[lo]
    ELSE LET mid == (lo + hi) \div 2
         IN  ConcatRange(ss, lo, mid) \o ConcatRange(ss, mid + 1, hi)

ConcatAll(ss) == ConcatRange(ss, 1, Len(ss))

(* !s || s.trim().length === 0, for the strings the model uses.            *)
IsBlank(str) == str \in {"", " "}

HasPerson(st, id) == \E i \in 1..Len(st.people) : st.people[i].id = id

PersonErrors(person) ==
    (IF person.id = "" THEN <<"All people must have valid IDs">> ELSE <<>>)
    \o (IF IsBlank(person.name)
        THEN <<"Person with ID " \o (IF person.id = "" THEN "unknown" ELSE person.id)
                 \o " has invalid name">>
        ELSE <<>>)

(* Mutant: any price passes.                                               *)
ItemErrorsAcceptingAnyPrice(st, item) ==
    LET shown == IF item.name = "" THEN "unknown" ELSE item.name
        consumerError(consumerId) ==
            IF HasPerson(st, consumerId) THEN <<>>
            ELSE <<"Item \"" \o shown \o "\" has invalid consumer ID: " \o consumerId>>
    IN  (IF item.id = "" THEN <<"All items must have valid IDs">> ELSE <<>>)
        \o (IF IsBlank(item.name) THEN <<"All items must have valid names">> ELSE <<>>)
        \o ConcatAll([j \in 1..Len(item.consumerIds) |-> consumerError(item.consumerIds[j])])

ItemErrors(st, item) ==
    LET shown == IF item.name = "" THEN "unknown" ELSE item.name
        consumerError(consumerId) ==
            IF HasPerson(st, consumerId) THEN <<>>
            ELSE <<"Item \"" \o shown \o "\" has invalid consumer ID: " \o consumerId>>
    IN  (IF item.id = "" THEN <<"All items must have valid IDs">> ELSE <<>>)
        \o (IF IsBlank(item.name) THEN <<"All items must have valid names">> ELSE <<>>)
        \o (IF item.price < 0 THEN <<"Item \"" \o shown \o "\" has invalid price">> ELSE <<>>)
        \o ConcatAll([j \in 1..Len(item.consumerIds) |-> consumerError(item.consumerIds[j])])

(* Mutant: an item without consumers is an error, as the test "should     *)
(* catch items without consumers" expects.                                 *)
validateBillStateRequiringConsumers(st) ==
    LET consumerless(item) ==
            IF Len(item.consumerIds) = 0
            THEN <<"Item \"" \o item.name \o "\" must have at least one consumer">>
            ELSE <<>>
        errors ==
            (IF HasPerson(st, st.payerId) THEN <<>>
             ELSE <<"Payer must be selected from people list">>)
            \o ConcatAll([i \in 1..Len(st.people) |-> PersonErrors(st.people[i])])
            \o ConcatAll([i \in 1..Len(st.items) |->
                             ItemErrors(st, st.items[i]) \o consumerless(st.items[i])])
            \o (IF st.overallTax < 0 THEN <<"Tax cannot be negative">> ELSE <<>>)
    IN  IF st.payerId = ""
        THEN [isValid |-> FALSE, errors |-> <<"Payer ID is required">>]
        ELSE [isValid |-> Len(errors) = 0, errors |-> errors]

validateBillState(st) ==
    IF st.payerId = ""
    THEN [isValid |-> FALSE, errors |-> <<"Payer ID is required">>]
    ELSE LET errors ==
                 (IF HasPerson(st, st.payerId) THEN <<>>
                  ELSE <<"Payer must be selected from people list">>)
                 \o ConcatAll([i \in 1..Len(st.people) |-> PersonErrors(st.people[i])])
                 \o ConcatAll([i \in 1..Len(st.items) |-> ItemErrors(st, st.items[i])])
                 \o (IF st.overallTax < 0 THEN <<"Tax cannot be negative">> ELSE <<>>)
         IN  [isValid |-> Len(errors) = 0, errors |-> errors]

(* Mutant: only a missing price is a warning.                              *)
ItemWarningsPriceOnly(item) ==
    IF item.price = 0 THEN <<"Item \"" \o item.name \o "\" needs a price">> ELSE <<>>

ItemWarnings(item) ==
    (IF item.price = 0 THEN <<"Item \"" \o item.name \o "\" needs a price">> ELSE <<>>)
    \o (IF Len(item.consumerIds) = 0
        THEN <<"Item \"" \o item.name \o "\" needs at least one consumer">>
        ELSE <<>>)

isStateComplete(st) ==
    LET validation == validateBillState(st)
        regularPeople == SelectSeq(st.people, LAMBDA p : ~p.isExternal)
        warnings ==
            (IF Len(regularPeople) = 0 THEN <<"At least one person is required">> ELSE <<>>)
            \o (IF Len(st.items) = 0 THEN <<"At least one item is required">> ELSE <<>>)
            \o ConcatAll([i \in 1..Len(st.items) |-> ItemWarnings(st.items[i])])
    IN  IF ~validation.isValid
        THEN [isComplete |-> FALSE, warnings |-> validation.errors]
        ELSE [isComplete |-> Len(warnings) = 0, warnings |-> warnings]

----------------------------------------------------------------------------
(* Input families.                                                         *)

Roster ==
    << [id |-> "p1", name |-> "Alice", isExternal |-> FALSE],
       [id |-> "p2", name |-> "Bob", isExternal |-> FALSE],
       [id |-> "p3", name |-> "Cara", isExternal |-> FALSE] >>

(* The person createEmptyState puts first in the people list.              *)
ExternalPayer == [id |-> "ext", name |-> "External Payer", isExternal |-> TRUE]

PriceChoices == {0, 100, 1000}      \* 0.00, 0.01, 0.10
TaxChoices == {0, 100}              \* 0.00, 0.01

NoResult == <<>>
NoArgs == [perPersonUnrounded |-> <<>>, grandTotal |-> 0]
NoApp == <<>>

(* The ids of the people at the indices S of `people`, in people order.    *)
IdsAt(people, S) ==
    LET nth(j) == CHOOSE i \in S : Cardinality({x \in S : x < i}) = j - 1
    IN  [j \in 1..Cardinality(S) |-> people[nth(j)].id]

MakeItem(i, price, consumerIds) ==
    [id |-> "i" \o ToString(i), name |-> "Item " \o ToString(i),
     price |-> price, consumerIds |-> consumerIds]

MakeState(n, ext, items, tax) ==
    LET regular == SubSeq(Roster, 1, n)
    IN  [people |-> IF ext THEN <<ExternalPayer>> \o regular ELSE regular,
         payerId |-> IF ext THEN ExternalPayer.id ELSE Roster[1].id,
         items |-> items,
         overallTax |-> tax]

(* st is a bill of the first n people of the roster and at most MaxItems   *)
(* items, each item with any price of PriceChoices and any set of          *)
(* consumers.  The payer is the first person, or an External Payer put in  *)
(* front of the people (always so when there is nobody else, which is the  *)
(* people list of createEmptyState).                                       *)
SmallBill(st) ==
    \E n \in 0..Len(Roster), m \in 0..MaxItems, tax \in TaxChoices :
        \E ext \in (IF n = 0 THEN {TRUE} ELSE BOOLEAN),
           f \in [1..m -> PriceChoices \X SUBSET (1..n)] :
            st = MakeState(n, ext,
                     [i \in 1..m |-> MakeItem(i, f[i][1], IdsAt(Roster, f[i][2]))],
                     tax)

(* st is a long bill: MaxBulkItems items of one price, each shared by      *)
(* the first n people of the roster.                                       *)
BulkBill(st) ==
    \E n \in 1..Len(Roster), price \in PriceChoices \ {0}, tax \in TaxChoices :
        st = MakeState(n, FALSE,
                 [i \in 1..MaxBulkItems |-> MakeItem(i, price, IdsAt(Roster, 1..n))],
                 tax)

(* st is one of the bills of the computeTotals tests: an item of 12.00     *)
(* with tax 3.00 shared by three people (taken at a tenth of the amounts,  *)
(* 1.20 and 0.30, so that tax * price stays within TLC's 32-bit integers), *)
(* or an item of 10.00 consumed by the first of two people.                *)
ExampleBill(st) ==
    \/ st = MakeState(3, FALSE, <<MakeItem(1, 12000, IdsAt(Roster, 1..3))>>, 3000)
    \/ st = MakeState(2, FALSE, <<MakeItem(1, 100000, IdsAt(Roster, {1}))>>, 0)

(* The bill of the README example: four people, an appetizer of 12.00 that *)
(* all four share, a pasta of 16.00 for Alice, a pizza of 14.00 for Bob, a *)
(* salad of 10.00 for You, tax 5.20.  The amounts are taken at a tenth     *)
(* (1.20, 1.60, 1.40, 1.00 and 0.52) so that tax * price stays within      *)
(* TLC's 32-bit integers; every quotient of the example is a whole number  *)
(* of ten-thousandths at either scale, so no rounding step differs.        *)
ReadmePeople ==
    << [id |-> "p1", name |-> "Alice", isExternal |-> FALSE],
       [id |-> "p2", name |-> "Bob", isExternal |-> FALSE],
       [id |-> "p3", name |-> "You", isExternal |-> FALSE],
       [id |-> "p4", name |-> "Friend", isExternal |-> FALSE] >>

(* st is a bill of the three roster people in which the first consumes     *)
(* nothing and the other two share up to MaxIdleItems items of 0.01, with  *)
(* a tax of 0.27.                                                          *)
IdleFirstBill(st) ==
    \E m \in 1..MaxIdleItems :
        st = MakeState(3, FALSE,
                 [i \in 1..m |-> MakeItem(i, 100, IdsAt(Roster, {2, 3}))], 2700)

(* A complete bill of five people without tax: two items of 0.04, the     *)
(* first shared by p1, p2 and p3, the second by p1, p4 and p5.             *)
FivePeopleBill ==
    [people |-> Roster \o << [id |-> "p4", name |-> "Dan", isExternal |-> FALSE],
                             [id |-> "p5", name |-> "Eve", isExternal |-> FALSE] >>,
     payerId |-> "p1",
     items |-> << MakeItem(1, 400, <<"p1", "p2", "p3">>),
                  MakeItem(2, 400, <<"p1", "p4", "p5">>) >>,
     overallTax |-> 0]

ReadmeBill ==
    [people |-> ReadmePeople,
     payerId |-> "p1",
     items |-> << [id |-> "i1", name |-> "Shared appetizer", price |-> 12000,
                   consumerIds |-> <<"p1", "p2", "p3", "p4">>],
                  [id |-> "i2", name |-> "Pasta", price |-> 16000,
                   consumerIds |-> <<"p1">>],
                  [id |-> "i3", name |-> "Pizza", price |-> 14000,
                   consumerIds |-> <<"p2">>],
                  [id |-> "i4", name |-> "Salad", price |-> 10000,
                   consumerIds |-> <<"p3">>] >>,
     overallTax |-> 5200]

----------------------------------------------------------------------------
(* Calls of the engine on one bill: computeTotals, then pennyFix on its    *)
(* result, then buildSplitwiseShares.                                      *)

InitCalc ==
    /\ (SmallBill(state) \/ BulkBill(state) \/ ExampleBill(state)
           \/ state = ReadmeBill \/ state = FivePeopleBill
           \/ IdleFirstBill(state))
    /\ pennyArgs = NoArgs
    /\ itemTaxes = NoResult
    /\ totals = NoResult
    /\ fixedTotals = NoResult
    /\ splitwise = NoResult
    /\ pc = "input"
    /\ app = NoApp
    /\ rounding = NoResult
    /\ verdict = NoResult

CallComputeTotals ==
    /\ pc = "input"
    /\ totals' = computeTotals(state)
    /\ pc' = "totals"
    /\ UNCHANGED <<state, pennyArgs, itemTaxes, fixedTotals, splitwise, app, rounding, verdict>>

CallPennyFix ==
    /\ pc = "totals"
    /\ fixedTotals' = pennyFix(totals.perPersonUnrounded, totals.grandTotal)
    /\ pc' = "fixed"
    /\ UNCHANGED <<state, pennyArgs, itemTaxes, totals, splitwise, app, rounding, verdict>>

(* Mutant: the sort by amount is applied to state.people itself, as        *)
(* Array.prototype.sort would do without the copy that filter makes.       *)
CallBuildSplitwiseSharesSortingPeople ==
    /\ pc = "fixed"
    /\ splitwise' = buildSplitwiseShares(state)
    /\ state' = [state EXCEPT !.people =
                    SortDescending(@, [i \in 1..Len(@) |-> GetOr(fixedTotals, @[i].id, 0)])]
    /\ pc' = "done"
    /\ UNCHANGED <<pennyArgs, itemTaxes, totals, fixedTotals, app, rounding, verdict>>

(* buildSplitwiseShares(state): filter, map and sort work on new arrays,   *)
(* the state is only read.                                                 *)
CallBuildSplitwiseShares ==
    /\ pc = "fixed"
    /\ splitwise' = buildSplitwiseShares(state)
    /\ pc' = "done"
    /\ UNCHANGED <<state, pennyArgs, itemTaxes, totals, fixedTotals, app, rounding, verdict>>

NextCalc == CallComputeTotals \/ CallPennyFix \/ CallBuildSplitwiseShares

SpecCalc == InitCalc /\ [][NextCalc]_vars

----------------------------------------------------------------------------
(* Calls of allocateItemTaxes(state.items, state.overallTax) on item lists *)
(* of up to MaxTaxItems items: the first item has one price, the others    *)
(* share another.                                                          *)

TaxPriceChoices == {0, 100, 300}        \* 0.00, 0.01, 0.03
TaxAmountChoices == {0, 100, 50000}     \* 0.00, 0.01, 5.00

InitTax ==
    /\ \E m \in 0..MaxTaxItems, first \in TaxPriceChoices, rest \in TaxPriceChoices,
          tax \in TaxAmountChoices :
          state = MakeState(0, TRUE,
                      [i \in 1..m |-> MakeItem(i, IF i = 1 THEN first ELSE rest, <<>>)],
                      tax)
    /\ pennyArgs = NoArgs
    /\ itemTaxes = NoResult
    /\ totals = NoResult
    /\ fixedTotals = NoResult
    /\ splitwise = NoResult
    /\ pc = "input"
    /\ app = NoApp
    /\ rounding = NoResult
    /\ verdict = NoResult

CallAllocateItemTaxes ==
    /\ pc = "input"
    /\ itemTaxes' = allocateItemTaxes(state.items, state.overallTax)
    /\ pc' = "done"
    /\ UNCHANGED <<state, pennyArgs, totals, fixedTotals, splitwise, app, rounding, verdict>>

NextTax == CallAllocateItemTaxes

SpecTax == InitTax /\ [][NextTax]_vars

----------------------------------------------------------------------------
(* Direct calls of pennyFix(perPersonUnrounded, grandTotal) on maps of up  *)
(* to MaxPennyPeople keys.                                                 *)

PennyKeys == <<"p1", "p2", "p3", "p4", "p5">>
AmountChoices == {0, 33, 50, 67, 149, 103330, 103340, 103360}
GrandTotalChoices == {0, 100, 150, 200, 300, 500, 310000}

InitPenny ==
    /\ \E k \in 0..MaxPennyPeople, g \in GrandTotalChoices :
          \E f \in [1..k -> AmountChoices] :
              pennyArgs = [perPersonUnrounded |->
                              [i \in 1..k |-> [key |-> PennyKeys[i], val |-> f[i]]],
                           grandTotal |-> g]
    /\ state = MakeState(0, TRUE, <<>>, 0)
    /\ itemTaxes = NoResult
    /\ totals = NoResult
    /\ fixedTotals = NoResult
    /\ splitwise = NoResult
    /\ pc = "input"
    /\ app = NoApp
    /\ rounding = NoResult
    /\ verdict = NoResult

CallPennyFixDirect ==
    /\ pc = "input"
    /\ fixedTotals' = pennyFix(pennyArgs.perPersonUnrounded, pennyArgs.grandTotal)
    /\ pc' = "done"
    /\ UNCHANGED <<state, pennyArgs, itemTaxes, totals, splitwise, app, rounding, verdict>>

NextPenny == CallPennyFixDirect

SpecPenny == InitPenny /\ [][NextPenny]_vars

----------------------------------------------------------------------------
(* Direct calls of round2(n) and round4(n), applied to a number and then   *)
(* to each other's results, up to MaxRoundCalls calls in a row.            *)
(*                                                                         *)
(* The numbers are fractions num/den of a tick.  The first family is the   *)
(* thirty-seconds of a unit, j/32 = 312.5 * j ticks: binary floating point *)
(* holds them and their products with 100 and with 10000 exactly, so       *)
(* Math.round sees exactly 3.125 * j and 312.5 * j, as here.  Every odd j  *)
(* is an exact half for round4, every j that is 4 modulo 8 an exact half   *)
(* for round2.  The second family is the decimal inputs of the test suite  *)
(* on which the product the code computes rounds as the exact decimal      *)
(* does (a positive half, or no half at all), in units of 0.00001.  A      *)
(* negative decimal such as -1.235, whose product with 100 is              *)
(* -123.50000000000001 in floating point and not a half, is left out: the  *)
(* exact arithmetic of the model does not compute it as the code does.     *)

MaxRoundInput == 64
MaxRoundCalls == 3

DyadicInputs == {<<625 * j, 2>> : j \in (-MaxRoundInput)..MaxRoundInput}

DecimalInputs ==
    {<<n, 10>> : n \in {123400, 123500, 199900, 500, 400, -123400,
                        123456, 123454, -123456, 5, 4}}

RoundInputs == DyadicInputs \cup DecimalInputs

InitRound ==
    /\ \E input \in RoundInputs :
          rounding = [num |-> input[1], den |-> input[2],
                      calls |-> <<>>, results |-> <<>>]
    /\ state = MakeState(0, TRUE, <<>>, 0)
    /\ pennyArgs = NoArgs
    /\ itemTaxes = NoResult
    /\ totals = NoResult
    /\ fixedTotals = NoResult
    /\ splitwise = NoResult
    /\ pc = "input"
    /\ app = NoApp
    /\ verdict = NoResult

(* The argument of the next call: the number itself, then the last result. *)
RoundArgument ==
    IF rounding.results = <<>>
    THEN [num |-> rounding.num, den |-> rounding.den]
    ELSE [num |-> rounding.results[Len(rounding.results)], den |-> 1]

CallRound2 ==
    /\ Len(rounding.calls) < MaxRoundCalls
    /\ rounding' = [rounding EXCEPT
                       !.calls = Append(@, "round2"),
                       !.results = Append(@, round2(RoundArgument.num,
                                                    RoundArgument.den))]
    /\ pc' = "done"
    /\ UNCHANGED <<state, pennyArgs, itemTaxes, totals, fixedTotals,
                   splitwise, app, verdict>>

CallRound4 ==
    /\ Len(rounding.calls) < MaxRoundCalls
    /\ rounding' = [rounding EXCEPT
                       !.calls = Append(@, "round4"),
                       !.results = Append(@, round4(RoundArgument.num,
                                                    RoundArgument.den))]
    /\ pc' = "done"
    /\ UNCHANGED <<state, pennyArgs, itemTaxes, totals, fixedTotals,
                   splitwise, app, verdict>>

NextRound == CallRound2 \/ CallRound4

SpecRound == InitRound /\ [][NextRound]_vars

----------------------------------------------------------------------------
(* Direct calls of validateBillState(state) and isStateComplete(state) on  *)
(* states of the BillState type that need not be valid: the payer id may   *)
(* be empty or name nobody, a consumer id may name nobody, a person's name *)
(* may be blank, a price or the tax may be negative, an item may be free   *)
(* or have no consumer.                                                    *)

MaxValidateItems == 2

PeopleChoices ==
    { <<>>,
      <<Roster[1]>>,
      <<Roster[1], Roster[2]>>,
      <<ExternalPayer>>,
      <<ExternalPayer, Roster[1]>>,
      <<[Roster[1] EXCEPT !.name = ""]>> }

PayerChoices == {"", "p1", "p2", "ext"}
ConsumerChoices == {<<>>, <<"p1">>, <<"p2">>, <<"p1", "p2">>}
ValidatePriceChoices == {-100, 0, 100}
ValidateTaxChoices == {-100, 0, 100}

InitValidate ==
    /\ \E people \in PeopleChoices, payerId \in PayerChoices,
          tax \in ValidateTaxChoices, m \in 0..MaxValidateItems :
          \E price \in [1..m -> ValidatePriceChoices],
             consumers \in [1..m -> ConsumerChoices] :
              state = [people |-> people,
                       payerId |-> payerId,
                       items |-> [i \in 1..m |->
                                     MakeItem(i, price[i], consumers[i])],
                       overallTax |-> tax]
    /\ pennyArgs = NoArgs
    /\ itemTaxes = NoResult
    /\ totals = NoResult
    /\ fixedTotals = NoResult
    /\ splitwise = NoResult
    /\ pc = "input"
    /\ app = NoApp
    /\ rounding = NoResult
    /\ verdict = NoResult

CallValidateBillState ==
    /\ pc = "input"
    /\ verdict' = [validation |-> validateBillState(state)]
    /\ pc' = "validated"
    /\ UNCHANGED <<state, pennyArgs, itemTaxes, totals, fixedTotals,
                   splitwise, app, rounding>>

CallIsStateComplete ==
    /\ pc = "validated"
    /\ verdict' = [validation |-> verdict.validation,
                   completion |-> isStateComplete(state)]
    /\ pc' = "completed"
    /\ UNCHANGED <<state, pennyArgs, itemTaxes, totals, fixedTotals,
                   splitwise, app, rounding>>

NextValidate == CallValidateBillState \/ CallIsStateComplete

SpecValidate == InitValidate /\ [][NextValidate]_vars

----------------------------------------------------------------------------
(* The application: App holds one BillState, edited through PeopleForm and *)
(* ItemsTable (every edit goes through handleUpdateState), and the recent  *)
(* splits kept in localStorage.                                            *)
(*                                                                         *)
(* generateId() returns an id that nothing uses.  The model takes the      *)
(* first id of the kind (a letter followed by a number) that the bill at   *)
(* hand, or the stored list for a split, does not use: the ids of a bill   *)
(* are only compared with each other, so behaviours that differ in the     *)
(* choice of fresh ids are the same up to renaming.                        *)
(*                                                                         *)
(* A stored split is its id, its timestamp and its bill (its display name  *)
(* is left out: nothing reads it back).  Date.now() is a clock that never  *)
(* goes back: a call reads the time of the previous call or a later one,   *)
(* up to MaxClock.                                                         *)

MaxAppSplits == 2       \* stored splits
MaxClock == 2

MAX_STORED_SPLITS == 10

(* The names typed into the forms.  Names are unique in a bill, so they    *)
(* bound the people and the items: two of each when only the bill is       *)
(* edited (SpecEdit), one of each when splits are also stored (SpecApp).   *)
PersonNames == {"Alice", "Bob"}
ItemNames == {"Rice", "Milk"}
AppPersonNames == {"Alice"}
AppItemNames == {"Rice"}
AppPriceChoices == {-100, 0, 100}
AppTaxChoices == {-100, 0, 100}

(* generateId(), for an id of the given kind that is not in `used`.        *)
generateId(kind, used) ==
    kind \o ToString(CHOOSE n \in 1..(Cardinality(used) + 1) :
                        /\ (kind \o ToString(n)) \notin used
                        /\ \A m \in 1..(n - 1) : (kind \o ToString(m)) \in used)

RegularPeople(st) == SelectSeq(st.people, LAMBDA p : ~p.isExternal)

PersonIds(people) == {people[i].id : i \in 1..Len(people)}

ItemIds(st) == {st.items[i].id : i \in 1..Len(st.items)}

SplitIds(stored) == {stored[i].id : i \in 1..Len(stored)}

(* Mutant: the payer is the value of the select option, not the id.        *)
createEmptyStateOptionValue(externalId) ==
    [people |-> <<[id |-> externalId, name |-> "External Payer", isExternal |-> TRUE]>>,
     payerId |-> "external",
     items |-> <<>>,
     overallTax |-> 0]

(* createEmptyState(), externalId being the id generateId() returns.       *)
createEmptyState(externalId) ==
    [people |-> <<[id |-> externalId, name |-> "External Payer", isExternal |-> TRUE]>>,
     payerId |-> externalId,
     items |-> <<>>,
     overallTax |-> 0]

(* Mutant: updatePayer drops the first person, whoever it is.              *)
WithoutFirst(people) == Tail(people)

(* state.people.filter((p) => !p.isExternal), the people updatePayer keeps *)
(* when a person of the group is made the payer.                           *)
WithoutExternal(people) == SelectSeq(people, LAMBDA p : ~p.isExternal)

(* The state App holds after handleUpdateState(newState) when it held cur. *)
handleUpdateState(cur, newState) ==
    IF validateBillState(newState).isValid THEN newState ELSE cur

(* validatePrice(priceStr) accepts the amount (a number of whole cents).   *)
validatePrice(price) == price >= 0

(* loadRecentSplits(): the stored splits that pass validateBillState,      *)
(* newest first, at most MAX_STORED_SPLITS of them.                        *)
loadRecentSplits(stored) ==
    LET validSplits ==
            SelectSeq(stored, LAMBDA split :
                /\ split.id # ""
                /\ split.timestamp # 0
                /\ validateBillState(split.state).isValid)
        sorted == SortDescending(validSplits,
                      [i \in 1..Len(validSplits) |-> validSplits[i].timestamp])
    IN  SubSeq(sorted, 1, Min(Len(sorted), MAX_STORED_SPLITS))

(* Mutant: an id that is not stored loads the newest split.                *)
loadSplitByIdOrNewest(stored, id) ==
    LET splits == loadRecentSplits(stored)
        found == {i \in 1..Len(splits) : splits[i].id = id}
    IN  IF splits = <<>> THEN <<>>
        ELSE IF found = {} THEN <<splits[1].state>>
        ELSE <<splits[CHOOSE i \in found : \A j \in found : i <= j].state>>

(* loadSplitById(id): <<state>> when the split is stored, <<>> for null.   *)
loadSplitById(stored, id) ==
    LET splits == loadRecentSplits(stored)
        found == {i \in 1..Len(splits) : splits[i].id = id}
    IN  IF found = {} THEN <<>>
        ELSE <<splits[CHOOSE i \in found : \A j \in found : i <= j].state>>

(* Mutant: the sorted list is stored whole.                                *)
SortWithoutSlice(splits) ==
    SortDescending(splits, [i \in 1..Len(splits) |-> splits[i].timestamp])

(* .sort((a, b) => b.timestamp - a.timestamp).slice(0, MAX_STORED_SPLITS)  *)
SortAndSlice(splits) ==
    LET sorted == SortDescending(splits, [i \in 1..Len(splits) |-> splits[i].timestamp])
    IN  SubSeq(sorted, 1, Min(Len(sorted), MAX_STORED_SPLITS))

(* Mutant: a state is stored whether it is complete or not.                *)
saveToRecentSplitsUnchecked(stored, st, existingSplitId, freshId, now) ==
    LET currentSplits == loadRecentSplits(stored)
        found == {i \in 1..Len(currentSplits) : currentSplits[i].id = existingSplitId}
        isExisting == existingSplitId # "" /\ found # {}
        existingIndex == CHOOSE i \in found : \A j \in found : i <= j
        splitId == IF isExisting THEN existingSplitId ELSE freshId
        edited ==
            IF isExisting
            THEN [currentSplits EXCEPT
                     ![existingIndex] = [@ EXCEPT !.state = st, !.timestamp = now]]
            ELSE <<[id |-> splitId, timestamp |-> now, state |-> st]>> \o currentSplits
    IN  [id |-> splitId, stored |-> SortAndSlice(edited)]

(* Mutant: a save with an id always adds a split under that id.            *)
saveToRecentSplitsAppending(stored, st, existingSplitId, freshId, now) ==
    IF ~isStateComplete(st).isComplete
    THEN [id |-> "", stored |-> stored]
    ELSE LET currentSplits == loadRecentSplits(stored)
             splitId == IF existingSplitId # "" THEN existingSplitId ELSE freshId
         IN  [id |-> splitId,
              stored |-> SortAndSlice(
                  <<[id |-> splitId, timestamp |-> now, state |-> st]>> \o currentSplits)]

(* saveToRecentSplits(state, existingSplitId) on the stored list: the id   *)
(* it returns ("" when nothing is saved) and the list it leaves stored.    *)
(* freshId is the id generateId() would return, now what Date.now() reads. *)
saveToRecentSplits(stored, st, existingSplitId, freshId, now) ==
    IF ~isStateComplete(st).isComplete
    THEN [id |-> "", stored |-> stored]
    ELSE LET currentSplits == loadRecentSplits(stored)
             found == {i \in 1..Len(currentSplits) : currentSplits[i].id = existingSplitId}
             isExisting == existingSplitId # "" /\ found # {}
             existingIndex == CHOOSE i \in found : \A j \in found : i <= j
             splitId == IF isExisting THEN existingSplitId ELSE freshId
             edited ==
                 IF isExisting
                 THEN [currentSplits EXCEPT
                          ![existingIndex] = [@ EXCEPT !.state = st, !.timestamp = now]]
                 ELSE <<[id |-> splitId, timestamp |-> now, state |-> st]>>
                          \o currentSplits
         IN  [id |-> splitId, stored |-> SortAndSlice(edited)]

deleteSplitById(stored, id) ==
    SelectSeq(loadRecentSplits(stored), LAMBDA split : split.id # id)

(* clearRecentSplits(): the key is removed, which reads as an empty list.  *)
clearRecentSplits(stored) == <<>>

InitApp ==
    /\ state = createEmptyState(generateId("e", {}))
    /\ app = [recentSplits |-> <<>>, currentSplitId |-> "", lastSavedState |-> <<>>,
              now |-> 1, calls |-> <<>>]
    /\ pennyArgs = NoArgs
    /\ itemTaxes = NoResult
    /\ totals = NoResult
    /\ fixedTotals = NoResult
    /\ splitwise = NoResult
    /\ pc = "input"
    /\ rounding = NoResult
    /\ verdict = NoResult

addPerson(name) ==
    /\ ~IsBlank(name)
    /\ \A i \in 1..Len(state.people) : state.people[i].name # name
    /\ state' = handleUpdateState(state,
                    [state EXCEPT !.people =
                        Append(@, [id |-> generateId("p", PersonIds(state.people)),
                                   name |-> name, isExternal |-> FALSE])])
    /\ UNCHANGED <<pennyArgs, itemTaxes, totals, fixedTotals, splitwise, pc, app, rounding, verdict>>

removePerson(personId) ==
    /\ personId # state.payerId
    /\ ~\E i \in 1..Len(state.items) :
            \E j \in 1..Len(state.items[i].consumerIds) :
                state.items[i].consumerIds[j] = personId
    /\ state' = handleUpdateState(state,
                    [state EXCEPT !.people = SelectSeq(@, LAMBDA p : p.id # personId)])
    /\ UNCHANGED <<pennyArgs, itemTaxes, totals, fixedTotals, splitwise, pc, app, rounding, verdict>>

updatePersonName(personId, newName) ==
    /\ newName = "" \/ \A i \in 1..Len(state.people) :
                           state.people[i].id # personId => state.people[i].name # newName
    /\ state' = handleUpdateState(state,
                    [state EXCEPT !.people =
                        [i \in 1..Len(@) |->
                            IF @[i].id = personId THEN [@[i] EXCEPT !.name = newName]
                            ELSE @[i]]])
    /\ UNCHANGED <<pennyArgs, itemTaxes, totals, fixedTotals, splitwise, pc, app, rounding, verdict>>

updatePayer(payerId) ==
    /\ payerId # ""
    /\ IF payerId = "external"
       THEN LET externals == {i \in 1..Len(state.people) : state.people[i].isExternal}
            IN  IF externals = {}
                THEN state' = handleUpdateState(state,
                            [state EXCEPT
                                !.people = Append(@, [id |-> generateId("e", PersonIds(state.people)),
                                                      name |-> "External Payer",
                                                      isExternal |-> TRUE]),
                                !.payerId = generateId("e", PersonIds(state.people))])
                ELSE state' = handleUpdateState(state,
                            [state EXCEPT !.payerId =
                                state.people[CHOOSE i \in externals :
                                                \A j \in externals : i <= j].id])
       ELSE state' = handleUpdateState(state,
                            [state EXCEPT !.people = WithoutExternal(state.people),
                                          !.payerId = payerId])
    /\ UNCHANGED <<pennyArgs, itemTaxes, totals, fixedTotals, splitwise, pc, app, rounding, verdict>>

addItem(name, price) ==
    /\ ~IsBlank(name)
    /\ Len(RegularPeople(state)) # 0
    /\ \A i \in 1..Len(state.items) : state.items[i].name # name
    /\ validatePrice(price)
    /\ price # 0
    /\ state' = handleUpdateState(state,
                    [state EXCEPT !.items =
                        <<[id |-> generateId("i", ItemIds(state)), name |-> name,
                           price |-> price, consumerIds |-> <<>>]>> \o @])
    /\ UNCHANGED <<pennyArgs, itemTaxes, totals, fixedTotals, splitwise, pc, app, rounding, verdict>>

(* { ...state, items: state.items.map(item => item.id === itemId ?         *)
(* { ...item, ...updates } : item) } for an update of one field.           *)
updateItem(st, itemId, field, value) ==
    [st EXCEPT !.items =
        [i \in 1..Len(@) |->
            IF @[i].id = itemId THEN [@[i] EXCEPT ![field] = value] ELSE @[i]]]

updateItemName(itemId, newName) ==
    /\ newName = "" \/ \A i \in 1..Len(state.items) :
                           state.items[i].id # itemId => state.items[i].name # newName
    /\ state' = handleUpdateState(state, updateItem(state, itemId, "name", newName))
    /\ UNCHANGED <<pennyArgs, itemTaxes, totals, fixedTotals, splitwise, pc, app, rounding, verdict>>

updateItemPrice(itemId, price) ==
    /\ price = 0 \/ validatePrice(price)
    /\ state' = handleUpdateState(state, updateItem(state, itemId, "price", price))
    /\ UNCHANGED <<pennyArgs, itemTaxes, totals, fixedTotals, splitwise, pc, app, rounding, verdict>>

removeItem(itemId) ==
    /\ state' = handleUpdateState(state,
                    [state EXCEPT !.items = SelectSeq(@, LAMBDA item : item.id # itemId)])
    /\ UNCHANGED <<pennyArgs, itemTaxes, totals, fixedTotals, splitwise, pc, app, rounding, verdict>>

toggleConsumer(itemId, personId) ==
    /\ \E i \in 1..Len(state.items) : state.items[i].id = itemId
    /\ LET item == state.items[CHOOSE i \in 1..Len(state.items) : state.items[i].id = itemId]
           isCurrentlySelected ==
               \E j \in 1..Len(item.consumerIds) : item.consumerIds[j] = personId
           newConsumerIds ==
               IF isCurrentlySelected
               THEN SelectSeq(item.consumerIds, LAMBDA id : id # personId)
               ELSE Append(item.consumerIds, personId)
       IN  state' = handleUpdateState(state,
                        updateItem(state, itemId, "consumerIds", newConsumerIds))
    /\ UNCHANGED <<pennyArgs, itemTaxes, totals, fixedTotals, splitwise, pc, app, rounding, verdict>>

updateTax(tax) ==
    /\ validatePrice(tax)
    /\ state' = handleUpdateState(state, [state EXCEPT !.overallTax = tax])
    /\ UNCHANGED <<pennyArgs, itemTaxes, totals, fixedTotals, splitwise, pc, app, rounding, verdict>>

handleManualSave ==
    /\ isStateComplete(state).isComplete
    /\ ~(app.currentSplitId # "" /\ app.lastSavedState = <<state>>)
    /\ \E now \in {app.now, app.now + 1} :
          LET known == app.currentSplitId \in SplitIds(loadRecentSplits(app.recentSplits))
              saved == saveToRecentSplits(app.recentSplits, state, app.currentSplitId,
                           generateId("s", SplitIds(app.recentSplits)
                                               \cup {app.currentSplitId}),
                           now)
          IN  /\ now <= MaxClock
              /\ known \/ Len(app.recentSplits) < MaxAppSplits
              /\ saved.id # ""
              /\ app' = [app EXCEPT !.recentSplits = saved.stored,
                                    !.currentSplitId = saved.id,
                                    !.lastSavedState = <<state>>,
                                    !.now = now]
    /\ UNCHANGED <<state, pennyArgs, itemTaxes, totals, fixedTotals, splitwise, pc, rounding, verdict>>

handleNewSplit ==
    /\ state' = createEmptyState(generateId("e", {}))
    /\ app' = [app EXCEPT !.currentSplitId = "", !.lastSavedState = <<>>]
    /\ UNCHANGED <<pennyArgs, itemTaxes, totals, fixedTotals, splitwise, pc, rounding, verdict>>

handleLoadRecentSplit(splitId) ==
    /\ LET loadedState == loadSplitById(app.recentSplits, splitId)
       IN  /\ loadedState # <<>>
           /\ state' = loadedState[1]
           /\ app' = [app EXCEPT !.currentSplitId = splitId, !.lastSavedState = loadedState]
    /\ UNCHANGED <<pennyArgs, itemTaxes, totals, fixedTotals, splitwise, pc, rounding, verdict>>

(* Mutant: the current split is forgotten only by "clear all".            *)
handleDeleteSplitKeepingCurrent(splitId) ==
    /\ app' = [app EXCEPT !.recentSplits = deleteSplitById(@, splitId)]
    /\ UNCHANGED <<state, pennyArgs, itemTaxes, totals, fixedTotals, splitwise, pc, rounding, verdict>>

handleDeleteSplit(splitId) ==
    /\ app' = [app EXCEPT
                 !.recentSplits = deleteSplitById(@, splitId),
                 !.currentSplitId = IF splitId = @ THEN "" ELSE @,
                 !.lastSavedState = IF splitId = app.currentSplitId THEN <<>> ELSE @]
    /\ UNCHANGED <<state, pennyArgs, itemTaxes, totals, fixedTotals, splitwise, pc, rounding, verdict>>

handleClearAllSplits ==
    /\ app' = [app EXCEPT !.recentSplits = clearRecentSplits(@),
                          !.currentSplitId = "",
                          !.lastSavedState = <<>>]
    /\ UNCHANGED <<state, pennyArgs, itemTaxes, totals, fixedTotals, splitwise, pc, rounding, verdict>>

(* The whole application, for bills of one person and one item.            *)
NextApp ==
    \/ \E name \in AppPersonNames \cup {""} : addPerson(name)
    \/ \E personId \in PersonIds(RegularPeople(state)) : removePerson(personId)
    \/ \E personId \in PersonIds(RegularPeople(state)), newName \in AppPersonNames \cup {""} :
          updatePersonName(personId, newName)
    \/ \E payerId \in PersonIds(RegularPeople(state)) \cup {"external", ""} :
          updatePayer(payerId)
    \/ \E name \in AppItemNames \cup {""}, price \in AppPriceChoices : addItem(name, price)
    \/ \E itemId \in ItemIds(state), newName \in AppItemNames \cup {""} :
          updateItemName(itemId, newName)
    \/ \E itemId \in ItemIds(state), price \in AppPriceChoices : updateItemPrice(itemId, price)
    \/ \E itemId \in ItemIds(state) : removeItem(itemId)
    \/ \E itemId \in ItemIds(state), personId \in PersonIds(RegularPeople(state)) :
          toggleConsumer(itemId, personId)
    \/ \E tax \in AppTaxChoices : updateTax(tax)
    \/ handleNewSplit
    \/ handleManualSave
    \/ \E splitId \in SplitIds(app.recentSplits) : handleLoadRecentSplit(splitId)
    \/ \E splitId \in SplitIds(app.recentSplits) : handleDeleteSplit(splitId)
    \/ handleClearAllSplits

SpecApp == InitApp /\ [][NextApp]_vars

(* The editing of one bill, nothing being stored, for bills of up to two   *)
(* people and two items.                                                   *)
NextEdit ==
    \/ \E name \in PersonNames \cup {""} : addPerson(name)
    \/ \E personId \in PersonIds(RegularPeople(state)) : removePerson(personId)
    \/ \E personId \in PersonIds(RegularPeople(state)), newName \in PersonNames \cup {""} :
          updatePersonName(personId, newName)
    \/ \E payerId \in PersonIds(RegularPeople(state)) \cup {"external", ""} :
          updatePayer(payerId)
    \/ \E name \in ItemNames \cup {""}, price \in AppPriceChoices : addItem(name, price)
    \/ \E itemId \in ItemIds(state), newName \in ItemNames \cup {""} :
          updateItemName(itemId, newName)
    \/ \E itemId \in ItemIds(state), price \in AppPriceChoices : updateItemPrice(itemId, price)
    \/ \E itemId \in ItemIds(state) : removeItem(itemId)
    \/ \E itemId \in ItemIds(state), personId \in PersonIds(RegularPeople(state)) :
          toggleConsumer(itemId, personId)
    \/ \E tax \in AppTaxChoices : updateTax(tax)
    \/ handleNewSplit

SpecEdit == InitApp /\ [][NextEdit]_vars

----------------------------------------------------------------------------
(* Direct calls of saveToRecentSplits, loadSplitById, deleteSplitById and  *)
(* clearRecentSplits on a stored list.  The list at the start is what n    *)
(* saves of new splits leave, for n up to MAX_STORED_SPLITS; up to         *)
(* MaxStoreCalls calls follow, and app.calls keeps what each was given and *)
(* returned.  A state goes to localStorage through deepCopyBillState and   *)
(* JSON.stringify and comes back through JSON.parse: for bills of strings, *)
(* finite numbers, booleans and arrays the bill read back has the content  *)
(* of the bill written, which is what the stored value of the model is.    *)

MaxStoreCalls == 2

(* The bills handed to saveToRecentSplits: two that are complete, one that *)
(* is valid but has an item nobody consumes.                               *)
StoreBills ==
    { MakeState(1, FALSE, <<MakeItem(1, 100, <<"p1">>)>>, 0),
      MakeState(2, TRUE, <<MakeItem(1, 1000, <<"p1", "p2">>)>>, 100),
      MakeState(1, FALSE, <<MakeItem(1, 100, <<>>)>>, 0) }

(* The stored list after n saves of a new split, one per tick from 1.      *)
RECURSIVE SavedTimes(_)
SavedTimes(n) ==
    IF n = 0 THEN <<>>
    ELSE LET before == SavedTimes(n - 1)
         IN  saveToRecentSplits(before,
                 MakeState(1, FALSE, <<MakeItem(1, 100, <<"p1">>)>>, 0), "",
                 generateId("s", SplitIds(before)), n).stored

(* The ids handed to the calls: none, one that is not stored, the newest   *)
(* and the oldest stored.                                                  *)
StoreIdChoices(stored) ==
    {"s0"} \cup (IF stored = <<>> THEN {} ELSE {stored[1].id, stored[Len(stored)].id})

InitStore ==
    /\ \E n \in 0..MAX_STORED_SPLITS :
          app = [recentSplits |-> SavedTimes(n), currentSplitId |-> "",
                 lastSavedState |-> <<>>, now |-> IF n = 0 THEN 1 ELSE n,
                 calls |-> <<>>]
    /\ state = MakeState(0, TRUE, <<>>, 0)
    /\ pennyArgs = NoArgs
    /\ itemTaxes = NoResult
    /\ totals = NoResult
    /\ fixedTotals = NoResult
    /\ splitwise = NoResult
    /\ pc = "input"
    /\ rounding = NoResult
    /\ verdict = NoResult

CallSaveToRecentSplits(st, existingSplitId) ==
    /\ Len(app.calls) < MaxStoreCalls
    /\ \E now \in {app.now, app.now + 1} :
          LET saved == saveToRecentSplits(app.recentSplits, st, existingSplitId,
                           generateId("s", SplitIds(app.recentSplits)
                                               \cup {existingSplitId}),
                           now)
          IN  app' = [app EXCEPT
                        !.recentSplits = saved.stored,
                        !.now = now,
                        !.calls = Append(@, [fn |-> "saveToRecentSplits",
                                             state |-> <<st>>,
                                             id |-> existingSplitId,
                                             before |-> app.recentSplits,
                                             returned |-> <<saved.id>>])]
    /\ state' = st
    /\ UNCHANGED <<pennyArgs, itemTaxes, totals, fixedTotals, splitwise, pc, rounding, verdict>>

CallLoadSplitById(id) ==
    /\ Len(app.calls) < MaxStoreCalls
    /\ app' = [app EXCEPT
                 !.calls = Append(@, [fn |-> "loadSplitById",
                                      state |-> <<>>,
                                      id |-> id,
                                      before |-> app.recentSplits,
                                      returned |-> loadSplitById(app.recentSplits, id)])]
    /\ UNCHANGED <<state, pennyArgs, itemTaxes, totals, fixedTotals, splitwise, pc, rounding, verdict>>

CallDeleteSplitById(id) ==
    /\ Len(app.calls) < MaxStoreCalls
    /\ app' = [app EXCEPT
                 !.recentSplits = deleteSplitById(@, id),
                 !.calls = Append(@, [fn |-> "deleteSplitById",
                                      state |-> <<>>,
                                      id |-> id,
                                      before |-> app.recentSplits,
                                      returned |-> <<>>])]
    /\ UNCHANGED <<state, pennyArgs, itemTaxes, totals, fixedTotals, splitwise, pc, rounding, verdict>>

CallClearRecentSplits ==
    /\ Len(app.calls) < MaxStoreCalls
    /\ app' = [app EXCEPT
                 !.recentSplits = clearRecentSplits(@),
                 !.calls = Append(@, [fn |-> "clearRecentSplits",
                                      state |-> <<>>,
                                      id |-> "",
                                      before |-> app.recentSplits,
                                      returned |-> <<>>])]
    /\ UNCHANGED <<state, pennyArgs, itemTaxes, totals, fixedTotals, splitwise, pc, rounding, verdict>>

NextStore ==
    \/ \E st \in StoreBills, id \in StoreIdChoices(app.recentSplits) \cup {""} :
          CallSaveToRecentSplits(st, id)
    \/ \E id \in StoreIdChoices(app.recentSplits) : CallLoadSplitById(id)
    \/ \E id \in StoreIdChoices(app.recentSplits) : CallDeleteSplitById(id)
    \/ CallClearRecentSplits

SpecStore == InitStore /\ [][NextStore]_vars

----------------------------------------------------------------------------
(* Properties of the engine on one bill (SpecCalc).                        *)

Complete == isStateComplete(state).isComplete

Amounts(shares) == [i \in 1..Len(shares) |-> shares[i].amount]

PersonTotalValues(t) == [i \in 1..Len(t.personTotals) |-> t.personTotals[i].total]

ConsumesNothing(person) ==
    \A i \in 1..Len(state.items) :
        \A j \in 1..Len(state.items[i].consumerIds) :
            state.items[i].consumerIds[j] # person.id

InShares(person) ==
    \E i \in 1..Len(splitwise.shares) : splitwise.shares[i].name = person.name

(* C1: for any BillState, the amounts pennyFix returns for                 *)
(* computeTotals(state) sum to round2(grandTotal) exactly.  Refuted: when  *)
(* the discrepancy is more pennies than there are people, pennyFix hands   *)
(* out one penny per person and drops the rest.                            *)
C1_PennyFixSumsToGrandTotal ==
    pc \in {"fixed", "done"} =>
        SumSeq(Values(fixedTotals)) = round2(totals.grandTotal, 1)

(* C2: for every complete BillState, the share amounts of                  *)
(* buildSplitwiseShares sum exactly to its grandTotal.  Refuted on a long  *)
(* bill, where the re-rounding to 4 decimals has drifted by more pennies   *)
(* than there are people.                                                  *)
C2_CompleteSharesSumToGrandTotal ==
    (pc = "done" /\ Complete) =>
        SumSeq(Amounts(splitwise.shares)) = splitwise.grandTotal

(* C3: for every complete BillState, the per-person totals that are        *)
(* displayed, computeTotals(state).personTotals[i].total, sum exactly to   *)
(* the displayed grandTotal.  Refuted: these are the naive round2 totals,  *)
(* before any penny reconciliation.                                        *)
C3_DisplayedTotalsSumToGrandTotal ==
    (pc # "input" /\ Complete) =>
        SumSeq(PersonTotalValues(totals)) = totals.grandTotal

(* C5: for any BillState, a person who consumes no item is in personTotals *)
(* with total 0 and is not in the shares of buildSplitwiseShares.          *)
(* Refuted: with a cost nobody consumes, pennyFix gives such a person a    *)
(* cent and the person is exported.                                        *)
C5_NonConsumerGetsNothing ==
    pc = "done" =>
        \A i \in 1..Len(state.people) :
            ConsumesNothing(state.people[i]) =>
                /\ \E k \in 1..Len(totals.personTotals) :
                      /\ totals.personTotals[k].id = state.people[i].id
                      /\ totals.personTotals[k].total = 0
                /\ ~InShares(state.people[i])

IsFinite(x) == x # NotANumber

AllFinite(numbers) == \A i \in 1..Len(numbers) : IsFinite(numbers[i])

(* C14: for every structurally valid BillState, the taxes computeTotals    *)
(* allocates and every number that computeTotals, pennyFix and             *)
(* buildSplitwiseShares return are finite (never the result of a division  *)
(* by zero), also for an empty item list, a zero subtotal and items with   *)
(* no consumers.                                                           *)
C14_EngineReturnsFiniteNumbers ==
    validateBillState(state).isValid =>
        /\ AllFinite(allocateItemTaxes(state.items, state.overallTax))
        /\ pc # "input" =>
              /\ AllFinite(Values(totals.perPersonUnrounded))
              /\ AllFinite(Values(totals.perPersonRounded))
              /\ AllFinite(<<totals.subtotal, totals.grandTotal>>)
              /\ \A i \in 1..Len(totals.personTotals) :
                    /\ IsFinite(totals.personTotals[i].total)
                    /\ \A j \in 1..Len(totals.personTotals[i].items) :
                          IsFinite(totals.personTotals[i].items[j].share)
        /\ pc \in {"fixed", "done"} => AllFinite(Values(fixedTotals))
        /\ pc = "done" =>
              /\ AllFinite(Amounts(splitwise.shares))
              /\ IsFinite(splitwise.grandTotal)

(* C14 witness: the engine has run on a bill with a tax, a zero subtotal   *)
(* and an item without consumers next to one with consumers.               *)
C14_Witness ==
    /\ pc = "done"
    /\ Len(state.items) = 2
    /\ SumSeq(Prices(state.items)) = 0
    /\ state.overallTax > 0
    /\ Len(state.items[1].consumerIds) = 0
    /\ Len(state.items[2].consumerIds) > 0

PeopleIndex(name) == CHOOSE i \in 1..Len(state.people) : state.people[i].name = name

(* C6: a person is in the shares of buildSplitwiseShares exactly when the  *)
(* person's penny-fixed amount is strictly positive; every share carries   *)
(* that amount, which is > 0.                                              *)
C6_SharesAreThePositiveFixedTotals ==
    pc = "done" =>
        /\ \A i \in 1..Len(state.people) :
              InShares(state.people[i]) <=> GetOr(fixedTotals, state.people[i].id, 0) > 0
        /\ \A k \in 1..Len(splitwise.shares) :
              /\ splitwise.shares[k].amount > 0
              /\ splitwise.shares[k].amount =
                    GetOr(fixedTotals, state.people[PeopleIndex(splitwise.shares[k].name)].id, 0)
        /\ Len(splitwise.shares) =
              Cardinality({i \in 1..Len(state.people) : InShares(state.people[i])})

(* C6 witness: one person is exported while another, who does consume an   *)
(* item, is left out because the penny fix brought the share to 0.         *)
C6_Witness ==
    /\ pc = "done"
    /\ \E i, j \in 1..Len(state.people) :
          /\ InShares(state.people[i])
          /\ ~InShares(state.people[j])
          /\ ~ConsumesNothing(state.people[j])
          /\ GetOr(fixedTotals, state.people[j].id, 0) = 0

(* C7: the shares are in descending order of amount, and people with equal *)
(* amounts keep their order of state.people.                               *)
C7_SharesSortedDescendingStable ==
    pc = "done" =>
        \A a, b \in 1..Len(splitwise.shares) :
            a < b =>
                /\ splitwise.shares[a].amount >= splitwise.shares[b].amount
                /\ splitwise.shares[a].amount = splitwise.shares[b].amount
                      => PeopleIndex(splitwise.shares[a].name)
                           < PeopleIndex(splitwise.shares[b].name)

(* C7 witness: three shares, the largest not the first person's, two of    *)
(* them equal.                                                             *)
C7_Witness ==
    /\ pc = "done"
    /\ Len(splitwise.shares) = 3
    /\ PeopleIndex(splitwise.shares[1].name) > 1
    /\ splitwise.shares[1].amount > splitwise.shares[2].amount
    /\ splitwise.shares[2].amount = splitwise.shares[3].amount

(* A common denominator of the shares itemTotal / k, k up to n consumers.  *)
RECURSIVE Factorial(_)
Factorial(n) == IF n <= 1 THEN 1 ELSE n * Factorial(n - 1)

(* A common multiple of every number of consumers an item of the checked   *)
(* bills has: up to the three of the roster, and the four of ReadmeBill.   *)
ShareDen == Factorial(Len(ReadmePeople))

Consumes(person, item) ==
    \E j \in 1..Len(item.consumerIds) : item.consumerIds[j] = person.id

ItemsConsumed(person) ==
    Cardinality({i \in 1..Len(state.items) : Consumes(person, state.items[i])})

(* ShareDen times the sum, over the items the person consumes, of          *)
(* (price + allocated tax) / number of consumers, without any rounding.    *)
ExactSharesTimesDen(person) ==
    LET taxes == allocateItemTaxes(state.items, state.overallTax)
    IN  SumSeq([i \in 1..Len(state.items) |->
                   IF Consumes(person, state.items[i])
                   THEN (state.items[i].price + taxes[i])
                          * (ShareDen \div Len(state.items[i].consumerIds))
                   ELSE 0])

(* Every share the person is charged is a whole number of ten-thousandths. *)
SharesAreWholeTicks(person) ==
    LET taxes == allocateItemTaxes(state.items, state.overallTax)
    IN  \A i \in 1..Len(state.items) :
            Consumes(person, state.items[i]) =>
                (state.items[i].price + taxes[i]) % Len(state.items[i].consumerIds) = 0

(* C11: computeTotals charges each item with k >= 1 consumers as           *)
(* (price + allocated tax) / k to each of its consumers and to nobody      *)
(* else.  The unrounded totals have one entry per person; a person who     *)
(* consumes nothing holds 0; a consumer holds the sum of the shares,       *)
(* exactly when every share is a whole number of ten-thousandths (a single *)
(* consumer, 15.00 / 3) and otherwise to within the 0.00005 per item       *)
(* consumed that keeping the running total at four decimals allows;        *)
(* grandTotal is round2(subtotal + tax).                                   *)
C11_ConsumersChargedTheirShares ==
    pc # "input" =>
        /\ Len(totals.perPersonUnrounded) = Len(state.people)
        /\ totals.grandTotal = round2(SumSeq(Prices(state.items)) + state.overallTax, 1)
        /\ \A i \in 1..Len(state.people) :
              LET person == state.people[i]
                  held == totals.perPersonUnrounded[i].val
                  exact == ExactSharesTimesDen(person)
              IN  /\ totals.perPersonUnrounded[i].key = person.id
                  /\ 2 * Abs(ShareDen * held - exact) <= ShareDen * ItemsConsumed(person)
                  /\ SharesAreWholeTicks(person) => ShareDen * held = exact

(* C11 witness: three people sharing one item of 1.20 with tax 0.30 hold   *)
(* 0.50 each and grandTotal is 1.50 (the 12.00 / 3.00 bill at a tenth).    *)
C11_Witness ==
    /\ pc # "input"
    /\ Len(state.people) = 3
    /\ Len(state.items) = 1
    /\ state.items[1].price = 12000
    /\ state.overallTax = 3000
    /\ Len(state.items[1].consumerIds) = 3
    /\ Values(totals.perPersonUnrounded) = <<5000, 5000, 5000>>
    /\ totals.grandTotal = 15000

----------------------------------------------------------------------------
(* Properties of direct pennyFix calls (SpecPenny).                        *)

PennyAmount(i) == pennyArgs.perPersonUnrounded[i].val

PennyNaive(i) == round2(PennyAmount(i), 1)

PennyDiscrepancy ==
    round2(pennyArgs.grandTotal
             - SumSeq([i \in 1..Len(pennyArgs.perPersonUnrounded) |-> PennyNaive(i)]), 1)

PennyCount ==
    IF Abs(PennyDiscrepancy) < Cent THEN 0 ELSE Abs(MathRound(PennyDiscrepancy, Cent))

PennySign == IF PennyDiscrepancy > 0 THEN 1 ELSE -1

PennyRemainder(i) == Abs(PennyAmount(i) - Cent * MathFloor(PennyAmount(i), Cent))

(* i comes before j in the ranking: a larger remainder, or an equal one    *)
(* and an earlier key.                                                     *)
PennyBefore(i, j) ==
    \/ PennyRemainder(i) > PennyRemainder(j)
    \/ PennyRemainder(i) = PennyRemainder(j) /\ i < j

(* The c first people of the ranking (everybody when c exceeds them).      *)
PennyTop(c) ==
    {i \in 1..Len(pennyArgs.perPersonUnrounded) :
        Cardinality({j \in 1..Len(pennyArgs.perPersonUnrounded) : PennyBefore(j, i)}) < c}

PennyResultIs(adjustedPeople) ==
    /\ Len(fixedTotals) = Len(pennyArgs.perPersonUnrounded)
    /\ \A i \in 1..Len(fixedTotals) :
          /\ fixedTotals[i].key = pennyArgs.perPersonUnrounded[i].key
          /\ fixedTotals[i].val =
                IF i \in adjustedPeople
                THEN PennyNaive(i) + PennySign * Cent
                ELSE PennyNaive(i)

----------------------------------------------------------------------------
(* Properties of allocateItemTaxes (SpecTax).                              *)

Subtotal == SumSeq(Prices(state.items))

(* r is the integer nearest to num/den (den > 0), a half going up.         *)
IsNearest(r, num, den) == 2 * r * den <= 2 * num + den /\ 2 * num + den < 2 * (r + 1) * den

(* C8 as stated: with a nonzero subtotal the allocated taxes sum to within *)
(* less than 0.01 of overallTax, whatever the number of items.  Refuted by *)
(* 201 equal items and a tax of 0.01: every item gets 0.                   *)
C8_TaxSumWithinOneCent ==
    (pc = "done" /\ Subtotal # 0) =>
        Abs(SumSeq(itemTaxes) - state.overallTax) < Cent

(* C8 as amended: the sum differs from overallTax by at most 0.00005 per   *)
(* item, hence by less than 0.01 for fewer than 200 items.                 *)
C8_TaxSumWithinHalfTickPerItem ==
    (pc = "done" /\ Subtotal # 0) =>
        /\ 2 * Abs(SumSeq(itemTaxes) - state.overallTax) <= Len(state.items)
        /\ Len(state.items) < 2 * Cent
              => Abs(SumSeq(itemTaxes) - state.overallTax) < Cent

(* C8 witness: several items whose allocated taxes do not add up to the    *)
(* tax.                                                                    *)
C8_Witness ==
    /\ pc = "done"
    /\ Subtotal # 0
    /\ Len(state.items) >= 3
    /\ SumSeq(itemTaxes) # state.overallTax

(* C9: with a nonzero subtotal the result has one entry per item, the i-th *)
(* being overallTax * items[i].price / subtotal rounded to the nearest     *)
(* ten-thousandth.                                                         *)
C9_TaxEntriesAreRoundedProportions ==
    (pc = "done" /\ Subtotal # 0) =>
        LET subtotal == Subtotal
        IN  /\ Len(itemTaxes) = Len(state.items)
            /\ \A i \in 1..Len(state.items) :
                  IsNearest(itemTaxes[i], state.overallTax * state.items[i].price, subtotal)

(* C9 witness: two items of different prices got different taxes, neither  *)
(* an exact proportion.                                                    *)
C9_Witness ==
    /\ pc = "done"
    /\ Subtotal # 0
    /\ Len(state.items) >= 2
    /\ itemTaxes[1] > itemTaxes[2]
    /\ itemTaxes[2] > 0
    /\ itemTaxes[1] * Subtotal # state.overallTax * state.items[1].price

(* C10: with a zero subtotal the result is one 0 per item, for any tax.    *)
C10_ZeroSubtotalGivesZeros ==
    (pc = "done" /\ Subtotal = 0) =>
        /\ Len(itemTaxes) = Len(state.items)
        /\ \A i \in 1..Len(itemTaxes) : itemTaxes[i] = 0

(* C10 witness: a single item priced 0 with tax 5 has yielded [0].         *)
C10_Witness ==
    /\ pc = "done"
    /\ Len(state.items) = 1
    /\ state.items[1].price = 0
    /\ state.overallTax = 50000
    /\ itemTaxes = <<0>>

----------------------------------------------------------------------------
(* Properties of the application (SpecApp, SpecEdit).                      *)

IsConsumer(st, personId) ==
    \E i \in 1..Len(st.items) :
        \E j \in 1..Len(st.items[i].consumerIds) : st.items[i].consumerIds[j] = personId

ReferencesResolve(st) ==
    /\ \E i \in 1..Len(st.people) : st.people[i].id = st.payerId
    /\ \A i \in 1..Len(st.items) :
          \A j \in 1..Len(st.items[i].consumerIds) :
              \E k \in 1..Len(st.people) : st.people[k].id = st.items[i].consumerIds[j]

(* C12: in every state reachable from createEmptyState() through the UI    *)
(* operations, new split and load recent split, payerId and every consumer *)
(* id resolve to a Person of the bill; the bill is never replaced by one   *)
(* that validateBillState rejects.                                         *)
C12_ReferencesAlwaysResolve ==
    ReferencesResolve(state) /\ validateBillState(state).isValid

(* C12 witness: a stored split is loaded or saved, the External Payer is   *)
(* gone, a person of the group pays and consumes the item.                 *)
C12_Witness ==
    /\ app.currentSplitId # ""
    /\ \A i \in 1..Len(state.people) : ~state.people[i].isExternal
    /\ Len(state.items) = 1
    /\ IsConsumer(state, state.payerId)

(* A step of removePerson or updatePayer.                                  *)
PeopleEdit ==
    \/ \E personId \in PersonIds(RegularPeople(state)) : removePerson(personId)
    \/ \E payerId \in PersonIds(RegularPeople(state)) \cup {"external"} : updatePayer(payerId)

(* The people of the bill that the step takes out of state.people.         *)
RemovedPeople ==
    {i \in 1..Len(state.people) : state.people[i].id \notin PersonIds(state'.people)}

(* C13 as stated: removePerson and updatePayer take a Person out of        *)
(* state.people only if, at that moment, no item lists them as a consumer  *)
(* and they are not the current payer.  Refuted: choosing a person of the  *)
(* group as payer takes out the External Payer while it is the payer.      *)
C13_RemovedOnlyIfNotPayerNorConsumer ==
    [][PeopleEdit =>
          \A i \in RemovedPeople :
              /\ ~IsConsumer(state, state.people[i].id)
              /\ state.people[i].id # state.payerId]_vars

(* C13 as amended: a Person taken out is listed by no item at that moment, *)
(* and is not the current payer unless it is the External Payer being      *)
(* replaced as payer by the same update.                                   *)
C13_RemovedOnlyIfUnreferencedOrReplacedExternal ==
    [][PeopleEdit =>
          \A i \in RemovedPeople :
              /\ ~IsConsumer(state, state.people[i].id)
              /\ state.people[i].id = state.payerId
                    => /\ state.people[i].isExternal
                       /\ state'.payerId # state.people[i].id]_vars

(* C13 witness: the External Payer and the first person added have both    *)
(* been taken out; the second person added remains and pays.               *)
C13_Witness ==
    /\ app # NoApp
    /\ PersonIds(state.people) = {"p2"}
    /\ state.payerId = "p2"
    /\ Len(state.items) > 0

----------------------------------------------------------------------------
(* Properties of round2 and round4 (SpecRound).                            *)

(* The fraction num/den rounded to a whole number, a half going away from  *)
(* zero.                                                                   *)
RoundHalfAwayFromZero(num, den) ==
    IF num >= 0 THEN MathRound(num, den) ELSE -MathRound(-num, den)

(* C16: round2 and round4 return the nearest multiple of 0.01 and of       *)
(* 0.0001, an exact half going away from zero, for negative numbers as for *)
(* positive ones.                                                          *)
C16_HalvesGoAwayFromZero ==
    Len(rounding.calls) >= 1 =>
        /\ rounding.calls[1] = "round2" =>
               rounding.results[1] =
                   Cent * RoundHalfAwayFromZero(rounding.num, rounding.den * Cent)
        /\ rounding.calls[1] = "round4" =>
               rounding.results[1] =
                   RoundHalfAwayFromZero(rounding.num, rounding.den)

(* C17: round2(round2(x)) = round2(x), round4(round4(x)) = round4(x), and  *)
(* round2(round4(x)) is a whole number of cents that a further round2      *)
(* returns as it is.                                                       *)
C17_RoundingIsIdempotent ==
    \A i \in 2..Len(rounding.calls) :
        /\ rounding.calls[i] = rounding.calls[i - 1] =>
               rounding.results[i] = rounding.results[i - 1]
        /\ rounding.calls[i] = "round2" =>
               rounding.results[i] % Cent = 0
        /\ (i >= 3 /\ rounding.calls[i - 2] = "round4"
               /\ rounding.calls[i - 1] = "round2"
               /\ rounding.calls[i] = "round2") =>
               rounding.results[i] = rounding.results[i - 1]

(* round4 of a number that is not a cent value, then round2 moving it to a *)
(* cent value, then round2 again; and the same number through round2 twice *)
(* is covered by the states this one passes through.                       *)
C17_Witness ==
    /\ rounding # NoResult
    /\ rounding.calls = <<"round4", "round2", "round2">>
    /\ rounding.results[1] % Cent # 0
    /\ rounding.results[2] # rounding.results[1]
    /\ rounding.results[3] = rounding.results[2]
    /\ rounding.results[3] # 0

----------------------------------------------------------------------------
(* Properties of validateBillState and isStateComplete (SpecValidate).     *)

Validated == pc \in {"validated", "completed"}

PayerUnresolved(st) == ~HasPerson(st, st.payerId)

ConsumerUnresolved(st) ==
    \E i \in 1..Len(st.items) :
        \E j \in 1..Len(st.items[i].consumerIds) :
            ~HasPerson(st, st.items[i].consumerIds[j])

PriceNegative(st) == \E i \in 1..Len(st.items) : st.items[i].price < 0

TaxNegative(st) == st.overallTax < 0

NameBlank(st) ==
    \/ \E i \in 1..Len(st.people) : IsBlank(st.people[i].name)
    \/ \E i \in 1..Len(st.items) : IsBlank(st.items[i].name)

(* A defect that validateBillState is documented to reject.                *)
HardDefect(st) ==
    \/ PayerUnresolved(st)
    \/ ConsumerUnresolved(st)
    \/ PriceNegative(st)
    \/ TaxNegative(st)
    \/ NameBlank(st)

Consumerless(st) == {i \in 1..Len(st.items) : Len(st.items[i].consumerIds) = 0}

ZeroPriced(st) == {i \in 1..Len(st.items) : st.items[i].price = 0}

Contains(messages, message) ==
    \E k \in 1..Len(messages) : messages[k] = message

(* C18: an unresolved payer, an unresolved consumer, a negative price or a *)
(* negative tax each make validateBillState return isValid = false with at *)
(* least one error, and isValid is true exactly when there is no error.    *)
C18_InvalidStatesAreRejected ==
    Validated =>
        LET v == verdict.validation
        IN  /\ (PayerUnresolved(state) \/ ConsumerUnresolved(state)
                   \/ PriceNegative(state) \/ TaxNegative(state)) =>
                   (~v.isValid /\ Len(v.errors) >= 1)
            /\ v.isValid <=> (v.errors = <<>>)

(* A negative price and an unresolved consumer in one state, each with its *)
(* error, and a valid state next to it is reached through C19_Witness.     *)
C18_Witness ==
    /\ pc = "validated"
    /\ state.people = <<Roster[1]>>
    /\ state.payerId = "p1"
    /\ state.overallTax = 0
    /\ Len(state.items) = 1
    /\ state.items[1].price < 0
    /\ state.items[1].consumerIds = <<"p2">>
    /\ ~verdict.validation.isValid
    /\ verdict.validation.errors =
           <<"Item \"Item 1\" has invalid price",
             "Item \"Item 1\" has invalid consumer ID: p2">>

(* The message the test "should catch items without consumers" looks for,  *)
(* for the items of the state.                                             *)
MissingConsumerMessages(st) ==
    {"Item \"" \o st.items[i].name \o "\" must have at least one consumer" :
        i \in 1..Len(st.items)}

----------------------------------------------------------------------------
(* The README example (SpecCalc).                                          *)

(* The final share of the person named `name`, in ticks.                   *)
FinalShare(name) ==
    LET i == CHOOSE k \in 1..Len(state.people) : state.people[k].name = name
    IN  GetOr(fixedTotals, state.people[i].id, 0)

ReadmeComputed == state = ReadmeBill /\ pc \in {"fixed", "done"}

----------------------------------------------------------------------------
(* Deviation and sign of the penny-fixed amounts (SpecCalc).               *)

Fixed == pc \in {"fixed", "done"}

(* The penny-fixed amount of person i less the person's unrounded total.   *)
Deviation(i) ==
    GetOr(fixedTotals, state.people[i].id, 0) - totals.perPersonUnrounded[i].val

(* C22: for a complete bill every penny-fixed amount is less than one cent *)
(* away from the person's unrounded total.                                 *)
C22_FixedWithinOneCent ==
    (Fixed /\ Complete) =>
        \A i \in 1..Len(state.people) : Abs(Deviation(i)) < Cent

(* C23: for a bill that passes validateBillState no penny-fixed amount is  *)
(* negative.  A downward penny goes to the largest fractional parts, and   *)
(* pennyFix takes one only where the share was rounded up to a cent or     *)
(* more.                                                                   *)
C23_FixedAmountsNonNegative ==
    (Fixed /\ validateBillState(state).isValid) =>
        \A i \in 1..Len(fixedTotals) : fixedTotals[i].val >= 0

----------------------------------------------------------------------------
(* Structure of the result of computeTotals (SpecCalc).                    *)

Keys(map) == {map[i].key : i \in 1..Len(map)}

(* The occurrences of the person in the consumer lists of the items, as    *)
(* pairs of item index and position, in the order computeTotals meets them.*)
Occurrences(person) ==
    ConcatAll([i \in 1..Len(state.items) |->
                  SelectSeq([j \in 1..Len(state.items[i].consumerIds) |->
                                [item |-> i, at |-> j]],
                            LAMBDA o : state.items[i].consumerIds[o.at] = person.id)])

(* C24: for a bill that passes validateBillState, computeTotals returns    *)
(* one personTotals entry per person in people order, the keys of          *)
(* perPersonUnrounded and of perPersonRounded are the ids of the people,   *)
(* every person's rounded amount and personTotals total are round2 of the  *)
(* unrounded total, and the person's breakdown has one entry for every     *)
(* occurrence of the person among the consumers of the items, in order.    *)
C24_PersonTotalsStructure ==
    (pc # "input" /\ validateBillState(state).isValid) =>
        /\ Len(totals.personTotals) = Len(state.people)
        /\ Keys(totals.perPersonUnrounded) = PersonIds(state.people)
        /\ Keys(totals.perPersonRounded) = PersonIds(state.people)
        /\ Len(totals.perPersonUnrounded) = Cardinality(PersonIds(state.people))
        /\ Len(totals.perPersonRounded) = Cardinality(PersonIds(state.people))
        /\ \A i \in 1..Len(state.people) :
              LET person == state.people[i]
                  entry == totals.personTotals[i]
                  occurrences == Occurrences(person)
              IN  /\ entry.id = person.id
                  /\ entry.name = person.name
                  /\ entry.total =
                         round2(GetOr(totals.perPersonUnrounded, person.id, 0), 1)
                  /\ GetOr(totals.perPersonRounded, person.id, 0) = entry.total
                  /\ Len(entry.items) = Len(occurrences)
                  /\ \A k \in 1..Len(occurrences) :
                         entry.items[k].id = state.items[occurrences[k].item].id

(* Three people and two items: the first person consumes both, the second  *)
(* one, the third none, and the first person's total is not zero.          *)
C24_Witness ==
    /\ pc = "totals"
    /\ Len(state.people) = 3
    /\ Len(totals.personTotals[1].items) = 2
    /\ Len(totals.personTotals[2].items) = 1
    /\ Len(totals.personTotals[3].items) = 0
    /\ totals.personTotals[1].total > totals.personTotals[2].total
    /\ totals.personTotals[2].total > 0
    /\ totals.personTotals[3].total = 0

----------------------------------------------------------------------------
(* Properties of the stored list (SpecStore).                              *)

NewestFirst(stored) ==
    \A i \in 1..(Len(stored) - 1) : stored[i].timestamp >= stored[i + 1].timestamp

LastCall == app.calls[Len(app.calls)]

(* The last call saved a new split onto a list that was full.              *)
SavedOntoFullList ==
    /\ Len(app.calls) > 0
    /\ LastCall.fn = "saveToRecentSplits"
    /\ Len(LastCall.before) = MAX_STORED_SPLITS
    /\ LastCall.returned # <<"">>
    /\ LastCall.returned[1] \notin SplitIds(LastCall.before)

(* C25: whatever calls were made, the stored list has at most              *)
(* MAX_STORED_SPLITS splits, newest first, and a new split saved onto a    *)
(* full list comes first and pushes out the last, which is the oldest.     *)
C25_AtMostTenNewestFirst ==
    /\ Len(app.recentSplits) <= MAX_STORED_SPLITS
    /\ NewestFirst(app.recentSplits)
    /\ SavedOntoFullList =>
          LET before == LastCall.before
          IN  /\ Len(app.recentSplits) = MAX_STORED_SPLITS
              /\ app.recentSplits[1].id = LastCall.returned[1]
              /\ Tail(app.recentSplits) = SubSeq(before, 1, MAX_STORED_SPLITS - 1)
              /\ \A i \in 1..Len(before) :
                     before[MAX_STORED_SPLITS].timestamp <= before[i].timestamp

(* An eleventh split saved: the list stays at ten and the oldest is gone.  *)
C25_Witness ==
    /\ SavedOntoFullList
    /\ Len(app.recentSplits) = MAX_STORED_SPLITS
    /\ LastCall.before[MAX_STORED_SPLITS].id \notin SplitIds(app.recentSplits)
    /\ LastCall.returned[1] \in SplitIds(app.recentSplits)

(* C27: saveToRecentSplits given a state that isStateComplete does not     *)
(* accept returns the empty string and leaves the stored list as it was.   *)
C27_IncompleteSaveStoresNothing ==
    \A k \in 1..Len(app.calls) :
        LET call == app.calls[k]
            after == IF k = Len(app.calls) THEN app.recentSplits
                     ELSE app.calls[k + 1].before
        IN  (call.fn = "saveToRecentSplits"
                /\ ~isStateComplete(call.state[1]).isComplete) =>
                (call.returned = <<"">> /\ after = call.before)

(* An incomplete bill handed over with the id of a stored split, the list  *)
(* not empty: nothing is returned and the split keeps its bill.            *)
C27_Witness ==
    /\ Len(app.calls) > 0
    /\ LastCall.fn = "saveToRecentSplits"
    /\ ~isStateComplete(LastCall.state[1]).isComplete
    /\ validateBillState(LastCall.state[1]).isValid
    /\ LastCall.id \in SplitIds(LastCall.before)
    /\ LastCall.returned = <<"">>
    /\ app.recentSplits = LastCall.before

(* The bill stored under the id, <<>> when there is none.                  *)
StoredBill(stored, id) ==
    LET found == {i \in 1..Len(stored) : stored[i].id = id}
    IN  IF found = {} THEN <<>> ELSE <<stored[CHOOSE i \in found : TRUE].state>>

----------------------------------------------------------------------------
(* Properties of saving in the application (SpecApp).                      *)

EntriesWithId(stored, id) == {i \in 1..Len(stored) : stored[i].id = id}

(* C26: a save while a current split id is set updates that split in       *)
(* place: the id stays current, the stored list keeps its length and has   *)
(* exactly one entry with the id, holding the bill as saved.  While the    *)
(* bill equals the last saved state no step that leaves the bill alone     *)
(* writes to the stored list, other than a delete or "clear all".          *)
C26_SaveUpdatesInPlace ==
    [][ /\ (handleManualSave /\ app.currentSplitId # "") =>
              /\ app'.currentSplitId = app.currentSplitId
              /\ Len(app'.recentSplits) = Len(app.recentSplits)
              /\ Cardinality(EntriesWithId(app'.recentSplits, app.currentSplitId)) = 1
              /\ StoredBill(app'.recentSplits, app.currentSplitId) = <<state>>
        /\ (app.currentSplitId # "" /\ app.lastSavedState = <<state>>
               /\ state' = state
               /\ Len(app'.recentSplits) >= Len(app.recentSplits)) =>
              app'.recentSplits = app.recentSplits
      ]_vars

(* Two splits stored, the current one behind a split saved later, holding  *)
(* the bill on screen with the latest timestamp: it was saved again in     *)
(* place after the other split was stored.                                 *)
C26_Witness ==
    /\ app # NoApp
    /\ Len(app.recentSplits) = 2
    /\ app.currentSplitId = "s1"
    /\ app.recentSplits[1].id = "s2"
    /\ app.recentSplits[2].id = "s1"
    /\ app.recentSplits[2].timestamp = MaxClock
    /\ app.recentSplits[2].state = state
    /\ app.recentSplits[1].state # state
    /\ app.lastSavedState = <<state>>

(* C29: a current split id is the id of a stored split, and deleting the   *)
(* current split or clearing all splits leaves no current split id.        *)
C29_CurrentSplitIsStored ==
    /\ [](app.currentSplitId # "" =>
             app.currentSplitId \in SplitIds(loadRecentSplits(app.recentSplits)))
    /\ [][ (\/ handleClearAllSplits
            \/ \E splitId \in SplitIds(app.recentSplits) :
                  splitId = app.currentSplitId /\ handleDeleteSplit(splitId)) =>
               app'.currentSplitId = ""
         ]_vars

(* The older of two stored splits is the current one; a step later it is   *)
(* deleted or everything is cleared.                                       *)
C29_Witness ==
    /\ app # NoApp
    /\ Len(app.recentSplits) = 2
    /\ app.currentSplitId = app.recentSplits[2].id
    /\ app.recentSplits[1].id # app.recentSplits[2].id

====
